---- MODULE Spec2Model ----
(***************************************************************************)
(* Model of mapswipe2hdx: the aggregation of MapSwipe project collections  *)
(* (MapSwipeDataFetcher, MapSwipeDataAggregator), the per-format export,   *)
(* packaging and publishing (HDXDatasetCreator) and the two entry points   *)
(* (main of app.py, main of streamlit.py).                                 *)
(*                                                                         *)
(* Strings are sequences of tokens (coarse characters), so that            *)
(* f"Project {id}" is a concatenation and startswith / the regular         *)
(* expression of extract_project_id are computed on the tokens.            *)
(***************************************************************************)
EXTENDS Integers, Sequences, FiniteSets, TLC

VARIABLES
    entry,               \* "cli": main of app.py; "ui": main of streamlit.py
    PROJECTS,            \* config.PROJECTS
    FILE_FORMATS,        \* config.FILE_FORMATS
    pc,                  \* position of the run
    combined_yes_maybe,  \* the accumulator of aggregate_project_data (results)
    combined_aoi,        \* the accumulator of aggregate_project_data (AOI)
    served,              \* per processed project: the two responses of the remote service
    requests,            \* HTTP requests issued so far, in order
    log,                 \* records logged so far, in order
    dataset,             \* the hdx Dataset object of create_and_upload_dataset
    fmt_i,               \* formats the loop of create_and_upload_dataset has been through
    zip_paths,           \* zip_paths of create_and_upload_dataset
    disk,                \* working directories and archives on the filesystem
    hdx                  \* calls received by the dataset registry, in order

vars == <<entry, PROJECTS, FILE_FORMATS, pc, combined_yes_maybe, combined_aoi,
          served, requests, log, dataset, fmt_i, zip_paths, disk, hdx>>

(***************************************************************************)
(* Bounds of the model.                                                    *)
(***************************************************************************)
MaxProjects == 2
MaxRows == 2
MaxAoiRows == 1
MaxFormats == 2
MaxFiles == 2
MaxShpRows == 3

(***************************************************************************)
(* Values.                                                                 *)
(***************************************************************************)
\* pandas' missing value (NaN / None in a cell)
Null == <<"NaN">>

\* Python's None as the value of a collection variable
NoneVal == [none |-> TRUE, cols |-> {}, rows |-> <<>>]

\* gpd.GeoDataFrame(): no column, no row
EmptyFrame == [none |-> FALSE, cols |-> {}, rows |-> <<>>]

\* DataFrame.empty: any axis of length 0. A frame read from a payload
\* always has its geometry column, so only the empty constructor has no column.
IsEmpty(df) == Len(df.rows) = 0

(***************************************************************************)
(* Project Identifier Resolver: MapSwipeDataFetcher.extract_project_id.    *)
(* A URL is <<"http", rest...>>; re.search(r"projects/([-\w]+)/?$") finds  *)
(* a "projects/" token followed by one word token and an optional final    *)
(* "/" token.                                                              *)
(***************************************************************************)
WordTokens == {"-N1", "-N2"}

StartsWithHttp(s) == Len(s) > 0 /\ s[1] = "http"

RegexMatches(s) ==
    {k \in 1..Len(s) :
        /\ s[k] = "projects/"
        /\ k + 1 <= Len(s)
        /\ s[k + 1] \in WordTokens
        /\ \/ k + 1 = Len(s)
           \/ k + 2 = Len(s) /\ s[k + 2] = "/"}

\* the value returned
extract_project_id(project_id_or_url) ==
    IF StartsWithHttp(project_id_or_url) /\ RegexMatches(project_id_or_url) # {}
    THEN LET k == CHOOSE k \in RegexMatches(project_id_or_url) :
                      \A j \in RegexMatches(project_id_or_url) : k <= j
         IN  <<project_id_or_url[k + 1]>>
    ELSE project_id_or_url

\* the records it logs
extract_project_id_log(project_id_or_url) ==
    IF StartsWithHttp(project_id_or_url) /\ RegexMatches(project_id_or_url) = {}
    THEN <<[level |-> "warning", msg |-> "Could not extract project ID from URL",
            arg |-> project_id_or_url]>>
    ELSE <<>>

(***************************************************************************)
(* Project Fetcher: MapSwipeDataFetcher.fetch_project_data.                *)
(* A response of the remote service is [status, wellformed, features]:     *)
(* features is the feature list of the GeoJSON payload, each feature a     *)
(* geometry type and a properties mapping.                                 *)
(***************************************************************************)
NoResponse == [status |-> 0, wellformed |-> FALSE, features |-> <<>>]

\* response.raise_for_status(): raises for a 4xx or 5xx status
RaisesForStatus(resp) == resp.status >= 400

\* gpd.read_file(text): the columns are the property names that occur in the
\* payload's features, a feature lacking one holds the missing value there
ReadFile(features) ==
    LET cols == UNION {DOMAIN features[k].properties : k \in 1..Len(features)}
    IN  [none |-> FALSE,
         cols |-> cols,
         rows |-> [k \in 1..Len(features) |->
                     [geometry |-> features[k].geometry,
                      attrs |-> [a \in cols |->
                                   IF a \in DOMAIN features[k].properties
                                   THEN features[k].properties[a]
                                   ELSE Null]]]]

\* one retrieval (request, raise_for_status, read_file) succeeds
RetrievalOk(resp) == ~RaisesForStatus(resp) /\ resp.wellformed

\* fetch_project_data without its except clause: the failure leaves the call
fetch_project_data_unguarded(project_id, yes_resp, aoi_resp) ==
    LET yes_maybe_url == [endpoint |-> "yes_maybe", id |-> project_id]
        aoi_url == [endpoint |-> "project_geometries", id |-> project_id]
        yesOk == RetrievalOk(yes_resp)
        aoiOk == RetrievalOk(aoi_resp)
    IN  [data_yes_maybe |-> IF yesOk THEN ReadFile(yes_resp.features) ELSE NoneVal,
         aoi_data |-> IF yesOk /\ aoiOk THEN ReadFile(aoi_resp.features) ELSE NoneVal,
         requests |-> IF yesOk THEN <<yes_maybe_url, aoi_url>> ELSE <<yes_maybe_url>>,
         log |-> <<>>,
         raised |-> ~(yesOk /\ aoiOk)]

\* fetch_project_data returning what it had read when the failure came
fetch_project_data_partial(project_id, yes_resp, aoi_resp) ==
    LET yes_maybe_url == [endpoint |-> "yes_maybe", id |-> project_id]
        aoi_url == [endpoint |-> "project_geometries", id |-> project_id]
        yesOk == RetrievalOk(yes_resp)
        aoiOk == RetrievalOk(aoi_resp)
    IN  [data_yes_maybe |-> IF yesOk THEN ReadFile(yes_resp.features) ELSE NoneVal,
         aoi_data |-> IF yesOk /\ aoiOk THEN ReadFile(aoi_resp.features) ELSE NoneVal,
         requests |-> IF yesOk THEN <<yes_maybe_url, aoi_url>> ELSE <<yes_maybe_url>>,
         log |-> IF yesOk /\ aoiOk THEN <<>>
                 ELSE <<[level |-> "error", msg |-> "Failed to fetch data for project",
                         arg |-> project_id]>>,
         raised |-> FALSE]

\* The call as a whole: the pair returned, the requests issued, the records
\* logged and whether an exception leaves the call. The AOI endpoint is
\* requested only after the results payload has been read.
fetch_project_data(project_id, yes_resp, aoi_resp) ==
    LET yes_maybe_url == [endpoint |-> "yes_maybe", id |-> project_id]
        aoi_url == [endpoint |-> "project_geometries", id |-> project_id]
        yesOk == RetrievalOk(yes_resp)
        aoiOk == RetrievalOk(aoi_resp)
    IN  IF yesOk /\ aoiOk
        THEN [data_yes_maybe |-> ReadFile(yes_resp.features),
              aoi_data |-> ReadFile(aoi_resp.features),
              requests |-> <<yes_maybe_url, aoi_url>>,
              log |-> <<>>,
              raised |-> FALSE]
        ELSE [data_yes_maybe |-> NoneVal,
              aoi_data |-> NoneVal,
              requests |-> IF yesOk THEN <<yes_maybe_url, aoi_url>>
                                    ELSE <<yes_maybe_url>>,
              log |-> <<[level |-> "error", msg |-> "Failed to fetch data for project",
                         arg |-> project_id]>>,
              raised |-> FALSE]

(***************************************************************************)
(* Schema-Reconciling Aggregator:                                          *)
(* MapSwipeDataAggregator.aggregate_project_data.                          *)
(***************************************************************************)
\* project.get("name", f"Project {project_id}")
ProjectName(project, project_id) ==
    IF "name" \in DOMAIN project THEN project.name ELSE <<"Project ">> \o project_id

\* the tag set whether or not the collection has a project_name
Tag_overwrite(df, project_name) ==
    [df EXCEPT
       !.cols = df.cols \cup {"project_name"},
       !.rows = [k \in 1..Len(df.rows) |->
                   [df.rows[k] EXCEPT
                      !.attrs = [a \in df.cols \cup {"project_name"} |->
                                   IF a = "project_name" THEN project_name
                                   ELSE df.rows[k].attrs[a]]]]]

\* if "project_name" not in df.columns: df["project_name"] = project_name
Tag(df, project_name) ==
    IF "project_name" \in df.cols
    THEN df
    ELSE [df EXCEPT
            !.cols = df.cols \cup {"project_name"},
            !.rows = [k \in 1..Len(df.rows) |->
                        [df.rows[k] EXCEPT
                           !.attrs = [a \in df.cols \cup {"project_name"} |->
                                        IF a = "project_name" THEN project_name
                                        ELSE df.rows[k].attrs[a]]]]]

\* a row of a frame, reindexed to the columns cols
Widen(row, cols) ==
    [row EXCEPT !.attrs = [a \in cols |->
                             IF a \in DOMAIN row.attrs THEN row.attrs[a] ELSE Null]]

\* a concatenation that keeps the columns of the accumulator only
Concat_first_schema(a, b) ==
    [none |-> FALSE,
     cols |-> a.cols,
     rows |-> [k \in 1..Len(a.rows) |-> Widen(a.rows[k], a.cols)]
              \o [k \in 1..Len(b.rows) |-> Widen(b.rows[k], a.cols)]]

\* a concatenation that puts the new rows first
Concat_prepend(a, b) ==
    LET cols == a.cols \cup b.cols
    IN  [none |-> FALSE,
         cols |-> cols,
         rows |-> [k \in 1..Len(b.rows) |-> Widen(b.rows[k], cols)]
                  \o [k \in 1..Len(a.rows) |-> Widen(a.rows[k], cols)]]

\* pd.concat([a, b], ignore_index=True)
Concat(a, b) ==
    LET cols == a.cols \cup b.cols
    IN  [none |-> FALSE,
         cols |-> cols,
         rows |-> [k \in 1..Len(a.rows) |-> Widen(a.rows[k], cols)]
                  \o [k \in 1..Len(b.rows) |-> Widen(b.rows[k], cols)]]

\* if combined.empty: combined = data.copy() else: combined = pd.concat(...)
Merge(combined, data) ==
    IF IsEmpty(combined) THEN data ELSE Concat(combined, data)

\* One iteration of the loop over config.PROJECTS, for the project after the
\* ones processed so far.
AggregateProject(yes_resp, aoi_resp) ==
    /\ pc = "aggregate"
    /\ Len(served) < Len(PROJECTS)
    /\ LET project == PROJECTS[Len(served) + 1]
           project_id == extract_project_id(project.project_id)
           project_name == ProjectName(project, project_id)
           fetched == fetch_project_data(project_id, yes_resp, aoi_resp)
           data_yes_maybe == Tag(fetched.data_yes_maybe, project_name)
           aoi_data == Tag(fetched.aoi_data, project_name)
       IN  /\ served' = Append(served,
                  [yes |-> yes_resp,
                   aoi |-> IF Len(fetched.requests) = 2 THEN aoi_resp ELSE NoResponse,
                   id |-> project_id,
                   asked |-> fetched.requests,
                   got |-> <<fetched.data_yes_maybe, fetched.aoi_data>>])
           /\ requests' = requests \o fetched.requests
           /\ log' = log \o extract_project_id_log(project.project_id)
                        \o <<[level |-> "info", msg |-> "Fetching project",
                              arg |-> project_name \o project_id]>>
                        \o fetched.log
           /\ IF fetched.raised
              THEN /\ pc' = "raised"
                   /\ UNCHANGED <<combined_yes_maybe, combined_aoi>>
              ELSE /\ pc' = pc
                   /\ IF ~fetched.data_yes_maybe.none /\ ~fetched.aoi_data.none
                      THEN /\ combined_yes_maybe' = Merge(combined_yes_maybe, data_yes_maybe)
                           /\ combined_aoi' = Merge(combined_aoi, aoi_data)
                      ELSE UNCHANGED <<combined_yes_maybe, combined_aoi>>
    /\ UNCHANGED <<entry, PROJECTS, FILE_FORMATS, dataset, fmt_i, zip_paths, disk, hdx>>

(***************************************************************************)
(* Settings (Config): the defaults of the options the model does not vary. *)
(***************************************************************************)
DATASET_NAME == <<"MapSwipe Results">>
DATASET_DESCRIPTION == <<"MapSwipe results aggregated from multiple projects.">>
DATASET_PREFIX == <<"mapswipe_results">>
DATASET_LOCATION == <<"Global">>
DATASET_FREQUENCY == <<"As Needed">>
DATASET_TAGS == <<"geodata">>
DATASET_LICENSE == <<"hdx-odc-odbl">>

(***************************************************************************)
(* HDXDatasetCreator.                                                      *)
(***************************************************************************)
\* attach_project_links_to_description: the description, the heading and one
\* link per configured project (its name, or "Project " and the identifier as
\* configured, and the id the URL pattern extracts)
attach_project_links_to_description(base_description) ==
    LET links == [k \in 1..Len(PROJECTS) |->
                    [name |-> IF "name" \in DOMAIN PROJECTS[k]
                              THEN PROJECTS[k].name
                              ELSE <<"Project ">> \o PROJECTS[k].project_id,
                     url |-> <<"https://mapswipe.org/en/projects/">>
                             \o extract_project_id(PROJECTS[k].project_id)
                             \o <<"/">>]]
    IN  [text |-> IF Len(PROJECTS) > 0
                  THEN base_description \o <<"\n\n", " Source MapSwipe Projects\n\n">>
                  ELSE base_description,
         links |-> links]

\* dataset_args and the setters that follow Dataset(dataset_args)
DatasetMetadata ==
    [title |-> DATASET_NAME,
     name |-> DATASET_PREFIX,
     notes |-> attach_project_links_to_description(DATASET_DESCRIPTION),
     private |-> FALSE,
     dataset_source |-> <<"MapSwipe">>,
     owner_org |-> <<"HDX_OWNER_ORG">>,
     maintainer |-> <<"HDX_MAINTAINER">>,
     license_id |-> DATASET_LICENSE,
     frequency |-> DATASET_FREQUENCY,
     location |-> DATASET_LOCATION,
     tags |-> DATASET_TAGS]

NoDataset == [built |-> FALSE, metadata |-> <<>>, resources |-> <<>>]

get_driver_for_format(fmt) ==
    CASE fmt = "geojson" -> "GeoJSON"
      [] fmt = "gpkg" -> "GPKG"
      [] fmt = "kml" -> "KML"
      [] fmt = "shp" -> "ESRI Shapefile"

get_format_display_name(fmt) ==
    CASE fmt = "geojson" -> "GeoJSON"
      [] fmt = "gpkg" -> "GeoPackage"
      [] fmt = "kml" -> "KML"
      [] fmt = "shp" -> "Shapefile"

\* gdf.geometry.type of a feature without geometry (None, "None" in the file name)
NoGeometry == "None"

\* gdf.geometry.type.unique(): the types in order of first appearance, the
\* missing type of features without geometry among them
RECURSIVE Unique(_)
Unique(types) ==
    IF types = <<>> THEN <<>>
    ELSE LET init == Unique(SubSeq(types, 1, Len(types) - 1))
             last == types[Len(types)]
         IN  IF \E k \in 1..Len(init) : init[k] = last THEN init ELSE Append(init, last)

GeomTypes(gdf) == Unique([k \in 1..Len(gdf.rows) |-> gdf.rows[k].geometry])

\* gdf[gdf.geometry.type == geom_type]: the rows whose geometry has the type
\* geom_type, in order; the comparison is false on a missing type, also
\* against None
RECURSIVE RowsOfType(_, _)
RowsOfType(rows, geom_type) ==
    IF rows = <<>> THEN <<>>
    ELSE (IF Head(rows).geometry = geom_type /\ Head(rows).geometry # NoGeometry
          THEN <<Head(rows)>> ELSE <<>>)
         \o RowsOfType(Tail(rows), geom_type)

\* the file export_shapefile writes for one geometry type
ShapeFile(gdf, name, geom_type, size) ==
    [name |-> <<name, geom_type, "shp">>,
     driver |-> "ESRI Shapefile",
     size |-> size,
     rows |-> RowsOfType(gdf.rows, geom_type)]

\* export_shapefile: one file per geometry type of gdf
export_shapefile(gdf, name, size) ==
    {ShapeFile(gdf, name, GeomTypes(gdf)[j], size) : j \in 1..Len(GeomTypes(gdf))}

\* gdf.to_file(f"{dir_path}/{name}.{fmt}", driver=driver)
to_file(gdf, name, fmt, size) ==
    [name |-> <<name, fmt>>,
     driver |-> get_driver_for_format(fmt),
     size |-> size,
     rows |-> gdf.rows]

\* the files one format's export leaves in its directory
ExportedFiles(fmt, yes_maybe, aoi, size) ==
    IF fmt = "shp"
    THEN export_shapefile(yes_maybe, "results_yes_maybe", size)
         \cup export_shapefile(aoi, "aois", size)
    ELSE {to_file(yes_maybe, "results_yes_maybe", fmt, size),
          to_file(aoi, "aois", fmt, size)}

\* zip_name: f"{DATASET_PREFIX}_{fmt}.zip".lower().replace(" ", "_"); the
\* prefix and the formats of the model are lower case and without spaces
ZipName(fmt) == DATASET_PREFIX \o <<"_", fmt, ".zip">>

\* file_to_zip, the archive: a file of more than 100 * 1024 * 1024 bytes
\* (os.path.getsize(file_path) / (1024 * 1024) > 100; the division by a power
\* of two is exact) is copied through the 4 MiB buffer into a zip64 member,
\* any other is added by zf.write; Readme.txt is written last
BufferSize == 4 * 1024 * 1024
MiB == 1024 * 1024
ThresholdMB == 100

\* a threshold that streams from 100 MiB on
Streamed_inclusive(file) == file.size >= ThresholdMB * MiB

Streamed(file) == file.size > ThresholdMB * MiB

ArchiveMembers(files) ==
    {[name |-> file.name,
      size |-> file.size,
      how |-> IF Streamed(file) THEN "copyfileobj" ELSE "write",
      buffer |-> IF Streamed(file) THEN BufferSize ELSE 0,
      force_zip64 |-> Streamed(file),
      rows |-> file.rows] : file \in files}
    \cup {[name |-> <<"Readme", "txt">>, size |-> 0, how |-> "writestr", buffer |-> 0,
           force_zip64 |-> FALSE, rows |-> <<>>]}

\* file_to_zip with a directory deletion that cannot fail the call
file_to_zip_tolerant(fs, fmt, files, outcome) ==
    LET dir == [kind |-> "dir", fmt |-> fmt, files |-> files, complete |-> TRUE]
        archive == [kind |-> "zip", fmt |-> fmt, files |-> ArchiveMembers(files),
                    complete |-> TRUE]
        others == {e \in fs : e.fmt # fmt}
    IN  CASE outcome = "zip" ->
               [fs |-> others \cup {dir, [archive EXCEPT !.complete = FALSE]},
                raised |-> TRUE, zip_path |-> <<>>]
          [] outcome = "rmtree" ->
               [fs |-> others \cup {dir, archive}, raised |-> FALSE, zip_path |-> ZipName(fmt)]
          [] OTHER ->
               [fs |-> others \cup {archive}, raised |-> FALSE, zip_path |-> ZipName(fmt)]

\* file_to_zip(working_dir, zip_path) on a filesystem fs where the directory
\* of fmt holds files: the filesystem it leaves, whether it raised, and the
\* path it returns. outcome is what the filesystem lets happen: "ok", "zip"
\* (writing the archive fails) or "rmtree" (shutil.rmtree fails).
file_to_zip(fs, fmt, files, outcome) ==
    LET dir == [kind |-> "dir", fmt |-> fmt, files |-> files, complete |-> TRUE]
        archive == [kind |-> "zip", fmt |-> fmt, files |-> ArchiveMembers(files),
                    complete |-> TRUE]
        others == {e \in fs : e.fmt # fmt}
    IN  CASE outcome = "zip" ->
               [fs |-> others \cup {dir, [archive EXCEPT !.complete = FALSE]},
                raised |-> TRUE, zip_path |-> <<>>]
          [] outcome = "rmtree" ->
               [fs |-> others \cup {dir, archive}, raised |-> TRUE, zip_path |-> <<>>]
          [] OTHER ->
               [fs |-> others \cup {archive}, raised |-> FALSE, zip_path |-> ZipName(fmt)]

\* a resource handed to the dataset in another order
add_update_resource_prepend(ds, resource) ==
    [ds EXCEPT !.resources = <<resource>> \o ds.resources]

\* Resource({...}); set_format(fmt); set_file_to_upload(zip_path)
Resource(fmt, zip_path) ==
    [name |-> DATASET_PREFIX \o <<"_results_yes_maybe.", fmt>>,
     description |-> <<"Combined results from MapSwipe projects in ",
                       get_format_display_name(fmt), " format">>,
     format |-> fmt,
     file_to_upload |-> zip_path]

\* dataset.add_update_resource(resource)
add_update_resource(ds, resource) ==
    [ds EXCEPT !.resources = Append(ds.resources, resource)]

\* an exception leaves the entry point: the UI reports it before it re-raises
Escapes == IF entry = "ui"
           THEN <<[level |-> "st.error", msg |-> "An error occurred", arg |-> <<>>]>>
           ELSE <<>>

\* the Dataset object built as soon as the settings are there
CreateDataset_early(ok) ==
    /\ pc \in {"aggregate", "create"}
    /\ ~dataset.built
    /\ ok
    /\ dataset' = [built |-> TRUE, metadata |-> DatasetMetadata, resources |-> <<>>]
    /\ pc' = IF pc = "create" THEN "formats" ELSE pc
    /\ log' = log
    /\ UNCHANGED <<entry, PROJECTS, FILE_FORMATS, combined_yes_maybe, combined_aoi,
                   served, requests, fmt_i, zip_paths, disk, hdx>>

\* create_and_upload_dataset up to the loop: the Dataset object is built from
\* the settings. ok is whether the registry library accepts the settings.
CreateDataset(ok) ==
    /\ pc = "create"
    /\ IF ok
       THEN /\ dataset' = [built |-> TRUE, metadata |-> DatasetMetadata, resources |-> <<>>]
            /\ pc' = "formats"
            /\ log' = log
       ELSE /\ dataset' = dataset
            /\ pc' = "raised"
            /\ log' = log \o Escapes
    /\ UNCHANGED <<entry, PROJECTS, FILE_FORMATS, combined_yes_maybe, combined_aoi,
                   served, requests, fmt_i, zip_paths, disk, hdx>>

ExportOutcomes == {"ok", "makedirs", "export_results", "export_aoi", "zip", "rmtree", "resource"}

\* the handler without its raise: the error is logged and the loop goes on
OnExportError_swallow(fmt) ==
    [log |-> <<[level |-> "error", msg |-> "Error exporting to", arg |-> <<fmt>>]>>,
     pc |-> "formats"]

\* except Exception as e: self.logger.error(...); raise e
OnExportError(fmt) ==
    [log |-> <<[level |-> "error", msg |-> "Error exporting to", arg |-> <<fmt>>]>>
             \o Escapes,
     pc |-> "raised"]

\* One iteration of the loop over config.FILE_FORMATS. outcome names the step
\* that raises, if any; size is the size of the files the driver writes.
ExportFormat(outcome, size) ==
    /\ pc = "formats"
    /\ fmt_i < Len(FILE_FORMATS)
    /\ fmt_i' = fmt_i + 1
    /\ LET fmt == FILE_FORMATS[fmt_i + 1]
           files == ExportedFiles(fmt, combined_yes_maybe, combined_aoi, size)
           others == {e \in disk : e.fmt # fmt}
           emptyDir == [kind |-> "dir", fmt |-> fmt, files |-> {}, complete |-> TRUE]
           resultsOnly == {file \in files : file.name[1] = "results_yes_maybe"}
           zipped == file_to_zip(disk, fmt, files,
                                 IF outcome \in {"zip", "rmtree"} THEN outcome ELSE "ok")
           handler == OnExportError(fmt)
       IN  CASE outcome = "makedirs" ->
                  /\ disk' = disk
                  /\ UNCHANGED <<zip_paths, dataset>>
                  /\ log' = log \o handler.log
                  /\ pc' = handler.pc
             [] outcome = "export_results" ->
                  /\ disk' = others \cup {[emptyDir EXCEPT !.complete = FALSE]}
                  /\ UNCHANGED <<zip_paths, dataset>>
                  /\ log' = log \o handler.log
                  /\ pc' = handler.pc
             [] outcome = "export_aoi" ->
                  /\ disk' = others \cup {[emptyDir EXCEPT !.files = resultsOnly,
                                                           !.complete = FALSE]}
                  /\ UNCHANGED <<zip_paths, dataset>>
                  /\ log' = log \o handler.log
                  /\ pc' = handler.pc
             [] zipped.raised ->
                  /\ disk' = zipped.fs
                  /\ UNCHANGED <<zip_paths, dataset>>
                  /\ log' = log \o handler.log
                  /\ pc' = handler.pc
             [] outcome = "resource" ->
                  /\ disk' = zipped.fs
                  /\ zip_paths' = Append(zip_paths, zipped.zip_path)
                  /\ dataset' = dataset
                  /\ log' = log \o handler.log
                  /\ pc' = handler.pc
             [] OTHER ->
                  /\ disk' = zipped.fs
                  /\ zip_paths' = Append(zip_paths, zipped.zip_path)
                  /\ dataset' = add_update_resource(dataset, Resource(fmt, zipped.zip_path))
                  /\ log' = log
                  /\ pc' = pc
    /\ UNCHANGED <<entry, PROJECTS, FILE_FORMATS, combined_yes_maybe, combined_aoi,
                   served, requests, hdx>>

\* After the loop: dataset.create_in_hdx(allow_no_resources=True),
\* dataset.update_in_hdx(), return dataset.get_hdx_url(). outcome names the
\* registry call that raises, if any.
Publish(outcome) ==
    /\ pc = "formats"
    /\ fmt_i = Len(FILE_FORMATS)
    /\ hdx' = hdx \o (IF outcome = "create_in_hdx"
                      THEN <<[call |-> "create_in_hdx", dataset |-> dataset, ok |-> FALSE]>>
                      ELSE <<[call |-> "create_in_hdx", dataset |-> dataset, ok |-> TRUE],
                             [call |-> "update_in_hdx", dataset |-> dataset,
                              ok |-> outcome = "ok"]>>)
    /\ IF outcome = "ok"
       THEN /\ pc' = "done"
            /\ log' = log \o (IF entry = "ui"
                              THEN <<[level |-> "st.success",
                                      msg |-> "Successfully processed and published data to HDX!",
                                      arg |-> <<>>]>>
                              ELSE <<>>)
       ELSE /\ pc' = "raised"
            /\ log' = log \o Escapes
    /\ UNCHANGED <<entry, PROJECTS, FILE_FORMATS, combined_yes_maybe, combined_aoi,
                   served, requests, dataset, fmt_i, zip_paths, disk>>

(***************************************************************************)
(* main (app.py) and main (streamlit.py) after the aggregation has         *)
(* returned: the data is exported and published only if both collections   *)
(* are non-empty.                                                          *)
(***************************************************************************)
\* a run that goes on to the export whatever was aggregated
Gate_ungated ==
    /\ pc = "aggregate"
    /\ Len(served) = Len(PROJECTS)
    /\ pc' = "create"
    /\ log' = log
    /\ UNCHANGED <<entry, PROJECTS, FILE_FORMATS, combined_yes_maybe, combined_aoi,
                   served, requests, dataset, fmt_i, zip_paths, disk, hdx>>

\* the gate opening when either collection has features
Gate_either ==
    /\ pc = "aggregate"
    /\ Len(served) = Len(PROJECTS)
    /\ IF ~IsEmpty(combined_yes_maybe) \/ ~IsEmpty(combined_aoi)
       THEN /\ pc' = "create"
            /\ log' = log
       ELSE /\ pc' = "done"
            /\ log' = Append(log,
                  [level |-> IF entry = "ui" THEN "st.error" ELSE "error",
                   msg |-> "No valid data fetched from the provided MapSwipe projects.",
                   arg |-> <<>>])
    /\ UNCHANGED <<entry, PROJECTS, FILE_FORMATS, combined_yes_maybe, combined_aoi,
                   served, requests, dataset, fmt_i, zip_paths, disk, hdx>>

Gate ==
    /\ pc = "aggregate"
    /\ Len(served) = Len(PROJECTS)
    /\ IF ~IsEmpty(combined_yes_maybe) /\ ~IsEmpty(combined_aoi)
       THEN /\ pc' = "create"
            /\ log' = log
       ELSE /\ pc' = "done"
            /\ log' = Append(log,
                  [level |-> IF entry = "ui" THEN "st.error" ELSE "error",
                   msg |-> "No valid data fetched from the provided MapSwipe projects.",
                   arg |-> <<>>])
    /\ UNCHANGED <<entry, PROJECTS, FILE_FORMATS, combined_yes_maybe, combined_aoi,
                   served, requests, dataset, fmt_i, zip_paths, disk, hdx>>

(***************************************************************************)
(* Inputs.                                                                 *)
(***************************************************************************)
\* sequences over S of length at most n
SeqsUpTo(S, n) == UNION {[1..m -> S] : m \in 0..n}

\* project references: a bare id with a display name, a project URL without a
\* display name, a URL the resolver cannot read
ProjectRefs ==
    <<[project_id |-> <<"-N1">>, name |-> <<"Flood A">>],
      [project_id |-> <<"http", "s://mapswipe.org/en/", "projects/", "-N2", "/">>],
      [project_id |-> <<"http", "s://example.org/">>]>>

\* the project lists: the first m references, taken in turn, for every m up to n
ProjectLists(n) ==
    {[k \in 1..m |-> ProjectRefs[((k - 1) % Len(ProjectRefs)) + 1]] : m \in 0..n}

\* features of a results payload: disjoint and overlapping property sets,
\* with and without a project_name of their own
Features ==
    {[geometry |-> "Polygon", properties |-> [severity |-> <<"high">>]],
     [geometry |-> "Point",
      properties |-> [confidence |-> <<"0.9">>, project_name |-> <<"orig">>]]}

\* features of an AOI payload
AoiFeatures ==
    {[geometry |-> "Polygon", properties |-> [area |-> <<"12">>]],
     [geometry |-> "MultiPolygon", properties |-> [project_name |-> <<"orig aoi">>]]}

FailedResponses ==
    {[status |-> 404, wellformed |-> FALSE, features |-> <<>>],
     [status |-> 200, wellformed |-> FALSE, features |-> <<>>]}

\* the answers of the remote service with at most n features of F
Responses(F, n) ==
    {[status |-> 200, wellformed |-> TRUE, features |-> fs] : fs \in SeqsUpTo(F, n)}
    \cup FailedResponses

\* rows a collection may still take within the bound n
Room(combined, n) == IF Len(combined.rows) >= n THEN 0 ELSE n - Len(combined.rows)

(***************************************************************************)
(* The aggregation on its own: aggregate_project_data over every project   *)
(* list and every answer of the remote service within the bounds.          *)
(***************************************************************************)
InitAgg ==
    /\ entry = "cli"
    /\ PROJECTS \in ProjectLists(MaxProjects)
    /\ FILE_FORMATS = <<"geojson">>
    /\ pc = "aggregate"
    /\ combined_yes_maybe = EmptyFrame
    /\ combined_aoi = EmptyFrame
    /\ served = <<>>
    /\ requests = <<>>
    /\ log = <<>>
    /\ dataset = NoDataset
    /\ fmt_i = 0
    /\ zip_paths = <<>>
    /\ disk = {}
    /\ hdx = <<>>

NextAgg ==
    \E yes_resp \in Responses(Features, Room(combined_yes_maybe, MaxRows)),
       aoi_resp \in Responses(AoiFeatures, Room(combined_aoi, MaxAoiRows)) :
        AggregateProject(yes_resp, aoi_resp)

SpecAgg == InitAgg /\ [][NextAgg]_vars

(***************************************************************************)
(* The run: main of app.py or of streamlit.py, from the settings to the    *)
(* end of the run.                                                         *)
(***************************************************************************)
Formats == <<"geojson", "shp", "gpkg", "kml">>

\* the format lists: n formats taken in turn, starting at any of them
FormatLists(n) ==
    {[k \in 1..m |-> Formats[((o + k - 1) % Len(Formats)) + 1]] :
        m \in 0..n, o \in 0..(Len(Formats) - 1)}

\* the answers of the remote service in a run: a failure, no feature, one feature
RunResponses(F) ==
    {[status |-> 200, wellformed |-> TRUE, features |-> fs] : fs \in SeqsUpTo(F, 1)}
    \cup {[status |-> 404, wellformed |-> FALSE, features |-> <<>>]}

OnePolygon == {[geometry |-> "Polygon", properties |-> [severity |-> <<"high">>]]}

Init ==
    /\ entry \in {"cli", "ui"}
    /\ PROJECTS \in ProjectLists(MaxProjects)
    /\ FILE_FORMATS \in FormatLists(MaxFormats)
    \* the UI starts a run only with a project and a format selected
    /\ entry = "ui" => Len(PROJECTS) > 0 /\ Len(FILE_FORMATS) > 0
    /\ pc = "aggregate"
    /\ combined_yes_maybe = EmptyFrame
    /\ combined_aoi = EmptyFrame
    /\ served = <<>>
    /\ requests = <<>>
    /\ log = <<>>
    /\ dataset = NoDataset
    /\ fmt_i = 0
    /\ zip_paths = <<>>
    /\ disk = {}
    /\ hdx = <<>>

Next ==
    \/ \E yes_resp \in RunResponses(OnePolygon), aoi_resp \in RunResponses(OnePolygon) :
          AggregateProject(yes_resp, aoi_resp)
    \/ Gate
    \/ \E ok \in BOOLEAN : CreateDataset(ok)
    \/ \E outcome \in ExportOutcomes, size \in {ThresholdMB * MiB, ThresholdMB * MiB + 1} :
          ExportFormat(outcome, size)
    \/ \E outcome \in {"ok", "create_in_hdx", "update_in_hdx"} : Publish(outcome)

Spec == Init /\ [][Next]_vars

(***************************************************************************)
(* The packager on its own: file_to_zip over every directory of at most    *)
(* MaxFiles files with sizes around the streaming threshold.               *)
(***************************************************************************)
FileNames == {<<"results_yes_maybe", "geojson">>, <<"aois", "geojson">>,
              <<"notes", "txt">>, <<"extra", "bin">>}

FileSizes == {0, ThresholdMB * MiB - 1, ThresholdMB * MiB, ThresholdMB * MiB + 1,
              2 * ThresholdMB * MiB}

Directories ==
    UNION {{ {[name |-> n, driver |-> "GeoJSON", size |-> sz[n], rows |-> <<>>] : n \in names} :
               sz \in [names -> FileSizes]} :
             names \in {ns \in SUBSET FileNames : Cardinality(ns) <= MaxFiles}}

InitZip ==
    /\ entry = "cli"
    /\ PROJECTS = <<>>
    /\ FILE_FORMATS = <<"geojson">>
    /\ pc = "zip"
    /\ combined_yes_maybe = EmptyFrame
    /\ combined_aoi = EmptyFrame
    /\ served = <<>>
    /\ requests = <<>>
    /\ log = <<>>
    /\ dataset = NoDataset
    /\ fmt_i = 0
    /\ zip_paths = <<>>
    /\ \E files \in Directories :
          disk = {[kind |-> "dir", fmt |-> "geojson", files |-> files, complete |-> TRUE]}
    /\ hdx = <<>>

\* zip_path = self.file_to_zip(dir_path, zip_name) on the directory of the filesystem
PackDirectory(outcome) ==
    /\ pc = "zip"
    /\ \E dir \in disk :
          LET zipped == file_to_zip(disk, dir.fmt, dir.files, outcome)
          IN  /\ disk' = zipped.fs
              /\ zip_paths' = IF zipped.raised THEN zip_paths
                              ELSE Append(zip_paths, zipped.zip_path)
              /\ pc' = IF zipped.raised THEN "raised" ELSE "zipped"
    /\ UNCHANGED <<entry, PROJECTS, FILE_FORMATS, combined_yes_maybe, combined_aoi,
                   served, requests, log, dataset, fmt_i, hdx>>

NextZip == \E outcome \in {"ok", "zip", "rmtree"} : PackDirectory(outcome)

SpecZip == InitZip /\ [][NextZip]_vars

(***************************************************************************)
(* The shapefile export on its own: export_shapefile over every collection *)
(* of at most MaxShpRows features, with and without geometry.              *)
(***************************************************************************)
ShpGeometries == {"Point", "Polygon", NoGeometry}

ShpRows ==
    {[geometry |-> g, attrs |-> [severity |-> v]] :
        g \in ShpGeometries, v \in {<<"high">>, <<"low">>}}

InitShp ==
    /\ entry = "cli"
    /\ PROJECTS = <<>>
    /\ FILE_FORMATS = <<"shp">>
    /\ pc = "shp"
    /\ \E rows \in SeqsUpTo(ShpRows, MaxShpRows) :
          combined_yes_maybe = [none |-> FALSE, cols |-> {"severity"}, rows |-> rows]
    /\ combined_aoi = EmptyFrame
    /\ served = <<>>
    /\ requests = <<>>
    /\ log = <<>>
    /\ dataset = NoDataset
    /\ fmt_i = 0
    /\ zip_paths = <<>>
    /\ disk = {}
    /\ hdx = <<>>

\* self.export_shapefile(combined_yes_maybe, "results_yes_maybe", dir_path):
\* the files are written in the order of the types; fail_at is the file whose
\* write raises (0: none does), the files before it are left in the directory
ExportShapefile(fail_at) ==
    /\ pc = "shp"
    /\ fail_at <= Len(GeomTypes(combined_yes_maybe))
    /\ LET files == export_shapefile(combined_yes_maybe, "results_yes_maybe", 0)
           before == {ShapeFile(combined_yes_maybe, "results_yes_maybe",
                                GeomTypes(combined_yes_maybe)[j], 0) : j \in 1..(fail_at - 1)}
       IN  IF fail_at = 0
           THEN /\ disk' = {[kind |-> "dir", fmt |-> "shp", files |-> files,
                             complete |-> TRUE]}
                /\ pc' = "exported"
           ELSE /\ disk' = {[kind |-> "dir", fmt |-> "shp", files |-> before,
                             complete |-> FALSE]}
                /\ pc' = "raised"
    /\ UNCHANGED <<entry, PROJECTS, FILE_FORMATS, combined_yes_maybe, combined_aoi,
                   served, requests, log, dataset, fmt_i, zip_paths, hdx>>

NextShp == \E fail_at \in 0..MaxShpRows : ExportShapefile(fail_at)

SpecShp == InitShp /\ [][NextShp]_vars

(***************************************************************************)
(* What the remote service has served, as the claims speak of it.          *)
(***************************************************************************)
Kinds == {"results", "aoi"}

Combined(kind) == IF kind = "results" THEN combined_yes_maybe ELSE combined_aoi

\* the payload served for project p (the features the project has)
Payload(kind, p) ==
    IF kind = "results" THEN served[p].yes.features ELSE served[p].aoi.features

\* project p faulted: a retrieval failed on its status or on its payload
Faulted(p) ==
    \/ served[p].yes.status >= 400 \/ ~served[p].yes.wellformed
    \/ served[p].aoi.status >= 400 \/ ~served[p].aoi.wellformed

\* <<p, j>> for feature j of project p, over the projects that did not fault,
\* in processing order and then in the project's own order
RECURSIVE OriginsUpTo(_, _)
OriginsUpTo(kind, n) ==
    IF n = 0 THEN <<>>
    ELSE OriginsUpTo(kind, n - 1)
         \o (IF Faulted(n) THEN <<>>
             ELSE [j \in 1..Len(Payload(kind, n)) |-> <<n, j>>])

Origins(kind) == OriginsUpTo(kind, Len(served))

SourceFeature(kind, o) == Payload(kind, o[1])[o[2]]

\* the attributes of the collection of project p as it is merged: the
\* properties of its features and project_name
SourceCols(kind, p) ==
    UNION {DOMAIN Payload(kind, p)[j].properties : j \in 1..Len(Payload(kind, p))}
    \cup {"project_name"}

\* a feature apart from its project_name: the geometry and the properties that hold a value
FeatureOfRow(row) ==
    [geometry |-> row.geometry,
     properties |-> {<<a, row.attrs[a]>> :
                        a \in {b \in DOMAIN row.attrs \ {"project_name"} : row.attrs[b] # Null}}]

FeatureOfSource(f) ==
    [geometry |-> f.geometry,
     properties |-> {<<a, f.properties[a]>> : a \in DOMAIN f.properties \ {"project_name"}}]

AllProcessed == pc = "aggregate" /\ Len(served) = Len(PROJECTS)

\* C1: per-project fault isolation. No exception escapes the aggregation, and
\* each aggregated collection holds exactly the features (as a multiset) of the
\* projects that did not fault: every feature occurs in it as many times as in
\* the payloads of those projects, a faulting project adds none.
C1_FaultIsolation ==
    /\ pc # "raised"
    /\ \A kind \in Kinds :
         \A got \in {[k \in 1..Len(Combined(kind).rows) |->
                         FeatureOfRow(Combined(kind).rows[k])]} :
         \A want \in {[i \in 1..Len(Origins(kind)) |->
                          FeatureOfSource(SourceFeature(kind, Origins(kind)[i]))]} :
            \A f \in {got[k] : k \in 1..Len(got)} \cup {want[i] : i \in 1..Len(want)} :
               Cardinality({k \in 1..Len(got) : got[k] = f})
               = Cardinality({i \in 1..Len(want) : want[i] = f})

\* a run over two projects is complete, one project faulted on its second
\* retrieval after its results payload (with features) was read, the other
\* contributed features to both collections
C1_Witness ==
    /\ AllProcessed
    /\ Len(served) = 2
    /\ \E p \in 1..2 :
         /\ Faulted(p) /\ ~Faulted(3 - p)
         /\ RetrievalOk(served[p].yes) /\ Len(served[p].yes.features) > 0
         /\ Len(served[3 - p].yes.features) > 0
         /\ Len(served[3 - p].aoi.features) > 0
         /\ Len(combined_yes_maybe.rows) = Len(served[3 - p].yes.features)

\* C2: schema widening. The attributes of each aggregated collection are the
\* union of the attributes of the collections merged into it (each taken as
\* merged, that is with its project_name), also when some of them have no
\* feature, and every row holds the missing value for each attribute its own
\* collection lacks.
C2_SchemaWidening ==
    \A kind \in Kinds :
        \A df \in {Combined(kind)} : \A origins \in {Origins(kind)} :
            /\ df.cols = UNION {SourceCols(kind, p) :
                                   p \in {q \in 1..Len(served) : ~Faulted(q)}}
            /\ Len(df.rows) = Len(origins)
            /\ \A k \in 1..Len(df.rows) :
                 /\ DOMAIN df.rows[k].attrs = df.cols
                 /\ \A a \in df.cols \ SourceCols(kind, origins[k][1]) :
                      df.rows[k].attrs[a] = Null

\* a project without features was merged first, then one with severity only,
\* then (or before) one with confidence: the first row holds a null confidence
C2_Witness ==
    /\ AllProcessed
    /\ Len(served) = 2
    /\ ~Faulted(1) /\ ~Faulted(2)
    /\ combined_yes_maybe.cols = {"severity", "confidence", "project_name"}
    /\ Len(combined_yes_maybe.rows) = 2
    /\ combined_yes_maybe.rows[1].attrs["confidence"] = Null
    /\ combined_yes_maybe.rows[2].attrs["severity"] = Null
    /\ Len(served[1].aoi.features) = 0
    /\ Len(served[2].aoi.features) = 1
    /\ combined_aoi.cols = {"area", "project_name"}

C10_OrderPreservation ==
    \A kind \in Kinds :
        \A rows \in {Combined(kind).rows} : \A origins \in {Origins(kind)} :
            /\ Len(rows) = Len(origins)
            /\ \A k \in 1..Len(rows) :
                 LET f == SourceFeature(kind, origins[k])
                 IN  /\ rows[k].geometry = f.geometry
                     /\ \A a \in DOMAIN f.properties : rows[k].attrs[a] = f.properties[a]

\* two projects merged, a failed one between or around them: the polygon of
\* the earlier project precedes the point of the later one
C10_Witness ==
    /\ AllProcessed
    /\ Len(served) = 2
    /\ ~Faulted(1) /\ ~Faulted(2)
    /\ Len(served[1].yes.features) = 1 /\ Len(served[2].yes.features) = 1
    /\ served[1].yes.features[1].geometry = "Polygon"
    /\ served[2].yes.features[1].geometry = "Point"
    /\ combined_yes_maybe.rows[1].geometry = "Polygon"
    /\ combined_yes_maybe.rows[2].geometry = "Point"

(***************************************************************************)
(* The run as the claims speak of it.                                      *)
(***************************************************************************)
\* the positions of the records of the except clause of the format loop
ExportErrors == {i \in 1..Len(log) : log[i].msg = "Error exporting to"}

Archives(fmt) == {e \in disk : e.kind = "zip" /\ e.fmt = fmt}
Directory(fmt) == {e \in disk : e.kind = "dir" /\ e.fmt = fmt}

\* the archive of fmt was written in full and its source directory is still there
RmtreeFailed(fmt) ==
    /\ \E e \in Archives(fmt) : e.complete
    /\ Directory(fmt) # {}

FormatSet == {Formats[k] : k \in 1..Len(Formats)}

\* C3: an export failure halts the run before publishing. Once the export or
\* the packaging of a format has raised, the error is logged once for that
\* format, the run has ended by the exception, no later format has been
\* exported or handed to the dataset, and the registry has received no call.
C3_ExportFailureHalts ==
    ExportErrors # {} =>
        /\ Cardinality(ExportErrors) = 1
        /\ pc = "raised"
        /\ hdx = <<>>
        /\ fmt_i >= 1
        /\ \A i \in ExportErrors : log[i].arg = <<FILE_FORMATS[fmt_i]>>
        /\ Len(dataset.resources) = fmt_i - 1
        /\ \A k \in (fmt_i + 1)..Len(FILE_FORMATS) :
              Archives(FILE_FORMATS[k]) = {} /\ Directory(FILE_FORMATS[k]) = {}

\* the first of two requested formats failed: the second was never started
C3_Witness ==
    /\ ExportErrors # {}
    /\ Len(FILE_FORMATS) = 2
    /\ fmt_i = 1
    /\ pc = "raised"

\* C4: a run without usable data. When every project has been processed and
\* each one faulted (or the list is empty), nothing is exported, packaged or
\* published, no exception ends the run, and the run ends with the error
\* "No valid data fetched ..." as its last record.
C4_NoUsableData ==
    (Len(served) = Len(PROJECTS) /\ \A p \in 1..Len(served) : Faulted(p)) =>
        /\ pc \in {"aggregate", "done"}
        /\ ~dataset.built
        /\ fmt_i = 0 /\ zip_paths = <<>> /\ disk = {} /\ hdx = <<>>
        /\ pc = "done" =>
              /\ Len(log) > 0
              /\ log[Len(log)].msg = "No valid data fetched from the provided MapSwipe projects."
              /\ log[Len(log)].level \in {"error", "st.error"}

\* two projects, both faulted, and the run is over
C4_Witness ==
    /\ pc = "done"
    /\ Len(PROJECTS) = 2
    /\ Len(served) = 2
    /\ Faulted(1) /\ Faulted(2)
    /\ Len(FILE_FORMATS) > 0

\* C5 as claimed: a failed deletion of the source directory is not fatal;
\* file_to_zip returns the archive path and the run goes on.
C5_DeletionFailureNonFatal ==
    \A fmt \in FormatSet :
        RmtreeFailed(fmt) =>
            /\ pc # "raised"
            /\ \E k \in 1..Len(zip_paths) : zip_paths[k] = ZipName(fmt)

\* C5, amended: every archive path file_to_zip has returned is that of a
\* complete archive whose source directory is deleted; a failed deletion
\* leaves file_to_zip as an exception: no path is returned, the handler of
\* the format loop logs it as an export error of that format and re-raises,
\* no resource is added for the format and nothing is published.
C5_DeletionFailureFatal ==
    /\ \A k \in 1..Len(zip_paths) :
          \E fmt \in FormatSet :
             /\ zip_paths[k] = ZipName(fmt)
             /\ \E e \in Archives(fmt) : e.complete
             /\ Directory(fmt) = {}
    /\ \A fmt \in FormatSet :
          RmtreeFailed(fmt) =>
             /\ pc = "raised"
             /\ \A k \in 1..Len(zip_paths) : zip_paths[k] # ZipName(fmt)
             /\ \A k \in 1..Len(dataset.resources) : dataset.resources[k].format # fmt
             /\ hdx = <<>>
             /\ \E i \in ExportErrors : log[i].arg = <<fmt>>

\* the deletion failed for the second format, the first one is packaged
C5_Witness ==
    /\ Len(zip_paths) = 1
    /\ fmt_i = 2
    /\ RmtreeFailed(FILE_FORMATS[2])

\* the files of the archives, Readme.txt apart
PackedFiles ==
    UNION {{m \in e.files : m.how # "writestr"} : e \in {d \in disk : d.kind = "zip"}}

\* C6 as claimed: below 100 MB zf.write, at or above 100 MB (a file of exactly
\* 100 MB included) the buffered copy into a zip64 member.
C6_ThresholdInclusive ==
    \A m \in PackedFiles :
        /\ m.size < 100 * 1024 * 1024 => m.how = "write"
        /\ m.size >= 100 * 1024 * 1024 =>
              m.how = "copyfileobj" /\ m.buffer = 4 * 1024 * 1024 /\ m.force_zip64

\* C6, amended: at or below 100 MiB (a file of exactly 104857600 bytes
\* included) zf.write, above it the copy through the 4 MiB buffer into a zip64
\* member; a call that returns leaves the complete archive and nothing else.
C6_ThresholdExclusive ==
    /\ \A m \in PackedFiles :
          /\ m.size <= 100 * 1024 * 1024 => m.how = "write"
          /\ m.size > 100 * 1024 * 1024 =>
                m.how = "copyfileobj" /\ m.buffer = 4 * 1024 * 1024 /\ m.force_zip64
    /\ pc = "zipped" =>
          \A e \in disk : e.kind = "zip" /\ e.complete /\ Cardinality(e.files) >= 1

\* an archive holds a file of exactly 100 MiB and one of a byte more
C6_Witness ==
    /\ \E m \in PackedFiles : m.size = 104857600 /\ m.how = "write"
    /\ \E m \in PackedFiles : m.size = 104857601 /\ m.how = "copyfileobj"

\* C7 as claimed: the metadata is built before any project fetch occurs.
C7_MetadataBeforeFetch == requests # <<>> => dataset.built

\* C7, amended: the metadata is built once, from the settings, when
\* create_and_upload_dataset starts: after the fetches of every project of
\* the run, with both aggregated collections non-empty and before any format
\* is exported; from then on it is not modified and no fetch occurs.
C7_MetadataAfterFetch ==
    [][/\ (~dataset.built /\ dataset'.built) =>
            /\ Len(served) = Len(PROJECTS)
            /\ ~IsEmpty(combined_yes_maybe) /\ ~IsEmpty(combined_aoi)
            /\ fmt_i = 0 /\ disk = {} /\ hdx = <<>>
            /\ dataset'.metadata.title = DATASET_NAME
            /\ dataset'.metadata.name = DATASET_PREFIX
            /\ Len(dataset'.metadata.notes.links) = Len(PROJECTS)
            /\ dataset'.metadata.license_id = DATASET_LICENSE
            /\ dataset'.metadata.tags = DATASET_TAGS
            /\ dataset'.metadata.location = DATASET_LOCATION
            /\ dataset'.metadata.frequency = DATASET_FREQUENCY
       /\ dataset.built =>
            /\ dataset'.built
            /\ dataset'.metadata = dataset.metadata
            /\ requests' = requests
            /\ served' = served]_vars

\* a run that fetched two projects and published
C7_Witness ==
    /\ pc = "done"
    /\ dataset.built
    /\ Len(requests) = 4
    /\ Len(hdx) = 2

\* C8: publisher handoff. The resources handed to the dataset are one per
\* format gone through, in the order of the format list, each with the
\* archive of its format; when the registry is called every requested format
\* is exported, packaged (its archive complete on disk) and handed over; the
\* registry is called after the last format only, create_in_hdx once and then
\* update_in_hdx once, and a run that ends after publishing has made both calls.
C8_PublisherHandoff ==
    /\ Len(dataset.resources) <= Len(FILE_FORMATS)
    /\ \A k \in 1..Len(dataset.resources) :
          /\ dataset.resources[k].format = FILE_FORMATS[k]
          /\ dataset.resources[k].file_to_upload = ZipName(FILE_FORMATS[k])
          /\ dataset.resources[k].file_to_upload = zip_paths[k]
    /\ hdx # <<>> =>
          /\ fmt_i = Len(FILE_FORMATS)
          /\ Len(dataset.resources) = Len(FILE_FORMATS)
          /\ \A k \in 1..Len(FILE_FORMATS) :
                /\ \E e \in Archives(FILE_FORMATS[k]) : e.complete
                /\ Directory(FILE_FORMATS[k]) = {}
          /\ Len(hdx) <= 2
          /\ hdx[1].call = "create_in_hdx"
          /\ Len(hdx) = 2 => hdx[2].call = "update_in_hdx"
          /\ \A i \in 1..Len(hdx) : hdx[i].dataset = dataset
    /\ (pc = "done" /\ dataset.built) =>
          /\ Len(hdx) = 2
          /\ hdx[1].ok /\ hdx[2].ok

\* a run over two formats has published
C8_Witness ==
    /\ pc = "done"
    /\ Len(FILE_FORMATS) = 2
    /\ Len(dataset.resources) = 2
    /\ Len(hdx) = 2

(***************************************************************************)
(* The shapefile export as the claims speak of it.                         *)
(***************************************************************************)
\* the files of the directory a completed export has left
ShpFiles == UNION {e.files : e \in {d \in disk : d.kind = "dir" /\ d.complete}}

\* how often the row r occurs in the rows
Occurrences(rows, r) == Cardinality({k \in 1..Len(rows) : rows[k] = r})

\* how often the row r occurs in the files together
RECURSIVE InFiles(_, _)
InFiles(files, r) ==
    IF files = {} THEN 0
    ELSE LET file == CHOOSE f \in files : TRUE
         IN  Occurrences(file.rows, r) + InFiles(files \ {file}, r)

\* C11: shapefile geometry partitioning. After export_shapefile has returned,
\* every file holds at least one feature and features of one geometry type
\* only, no two files hold the same type, and every feature of the collection
\* is in the files exactly as often as in the collection (none dropped, none
\* duplicated).
C11_GeometryPartition ==
    pc = "exported" =>
        /\ \A file \in ShpFiles :
              /\ Len(file.rows) > 0
              /\ \A k \in 1..Len(file.rows) : file.rows[k].geometry = file.name[2]
        /\ \A f1, f2 \in ShpFiles : f1.name[2] = f2.name[2] => f1 = f2
        /\ \A r \in ShpRows :
              InFiles(ShpFiles, r) = Occurrences(combined_yes_maybe.rows, r)

(***************************************************************************)
(* The calls of fetch_project_data as the claims speak of them.            *)
(***************************************************************************)
\* the error records fetch_project_data has logged
FetchErrors == SelectSeq(log, LAMBDA rec : rec.level = "error"
                                           /\ rec.msg = "Failed to fetch data for project")

\* the requests of all calls so far, in order
RECURSIVE AskedUpTo(_)
AskedUpTo(n) == IF n = 0 THEN <<>> ELSE AskedUpTo(n - 1) \o served[n].asked

\* the ids of the projects that faulted, in processing order
RECURSIVE FaultedIdsUpTo(_)
FaultedIdsUpTo(n) ==
    IF n = 0 THEN <<>>
    ELSE FaultedIdsUpTo(n - 1) \o (IF Faulted(n) THEN <<served[n].id>> ELSE <<>>)

\* C12: fetch_project_data returns both collections or (None, None), never
\* exactly one. A call in which either retrieval fails (status or payload)
\* returns (None, None) and logs one error for its project; a call without
\* failure returns the two collections read from the payloads. No call
\* requests an endpoint twice: it asks the results endpoint once and then the
\* AOI endpoint at most once, and the service has seen no other request.
C12_BothOrNeither ==
    /\ \A p \in 1..Len(served) :
          /\ served[p].got[1].none <=> served[p].got[2].none
          /\ Faulted(p) => served[p].got = <<NoneVal, NoneVal>>
          /\ ~Faulted(p) => served[p].got = <<ReadFile(served[p].yes.features),
                                              ReadFile(served[p].aoi.features)>>
          /\ Len(served[p].asked) \in 1..2
          /\ served[p].asked[1] = [endpoint |-> "yes_maybe", id |-> served[p].id]
          /\ Len(served[p].asked) = 2 =>
                /\ RetrievalOk(served[p].yes)
                /\ served[p].asked[2] = [endpoint |-> "project_geometries",
                                         id |-> served[p].id]
    /\ requests = AskedUpTo(Len(served))
    /\ [k \in 1..Len(FetchErrors) |-> FetchErrors[k].arg] = FaultedIdsUpTo(Len(served))

\* a call whose results retrieval succeeded, with features, and whose AOI
\* retrieval failed has returned (None, None), and a call without failure has
\* returned both collections
C12_Witness ==
    /\ Len(served) = 2
    /\ \E p \in 1..2 :
          /\ RetrievalOk(served[p].yes) /\ Len(served[p].yes.features) > 0
          /\ ~RetrievalOk(served[p].aoi)
          /\ Len(served[p].asked) = 2
          /\ served[p].got = <<NoneVal, NoneVal>>
          /\ Len(FetchErrors) = 1
          /\ ~Faulted(3 - p)
          /\ ~served[3 - p].got[1].none /\ ~served[3 - p].got[2].none

(***************************************************************************)
(* The gate before create_and_upload_dataset as the claims speak of it.    *)
(***************************************************************************)
\* create_and_upload_dataset has been entered
Entered ==
    \/ pc \in {"create", "formats", "raised"}
    \/ dataset.built
    \/ fmt_i > 0 \/ zip_paths # <<>> \/ disk # {} \/ hdx # <<>>

\* C13: publish gate. The export, package and publish step is entered only
\* when both aggregated collections have features. A run whose aggregation is
\* complete with either collection empty, whether or not projects were fetched
\* successfully, exports nothing and publishes nothing, and when it is over its
\* last record is the error "No valid data fetched ...".
C13_PublishGate ==
    /\ Entered => ~IsEmpty(combined_yes_maybe) /\ ~IsEmpty(combined_aoi)
    /\ (Len(served) = Len(PROJECTS)
          /\ (IsEmpty(combined_yes_maybe) \/ IsEmpty(combined_aoi))) =>
          /\ pc \in {"aggregate", "done"}
          /\ ~Entered
          /\ pc = "done" =>
                /\ log # <<>>
                /\ log[Len(log)] =
                      [level |-> IF entry = "ui" THEN "st.error" ELSE "error",
                       msg |-> "No valid data fetched from the provided MapSwipe projects.",
                       arg |-> <<>>]

\* a run is over in which a project was fetched without failure and gave the
\* results collection a feature, while the aggregated AOI collection is empty
C13_Witness ==
    /\ pc = "done"
    /\ Len(FILE_FORMATS) > 0
    /\ \E p \in 1..Len(served) : ~Faulted(p) /\ Len(served[p].yes.features) > 0
    /\ ~IsEmpty(combined_yes_maybe)
    /\ IsEmpty(combined_aoi)
    /\ ~dataset.built /\ hdx = <<>>

====
